---- MODULE Spec2Model ----
(***************************************************************************)
(* Read-path state resolver of globalRPC: GetLatestAccountInfo and         *)
(* GetLatestAsset (globalmapHandler/accountAssetForRead.go).               *)
(*                                                                         *)
(* Every resolver call is a process that advances one remote call at a     *)
(* time (history store, mempool store, redis cache, redis lock), so that   *)
(* concurrent calls interleave exactly where the Go code can be preempted  *)
(* by another request.  Strings are sequences of one-character strings,    *)
(* the empty sequence being Go's "".                                       *)
(***************************************************************************)
EXTENDS Integers, Sequences, FiniteSets, TLC

\* ------------------------------------------------------------------ bounds
MaxNonce == 2            \* pending transactions an account submits at most

\* ------------------------------------------------------- program constants
BalanceExpiryTime == 2   \* TTL of cache entries, in clock ticks
LockExpiryTime == 2      \* TTL of the redis lock, in clock ticks

Procs == {"r1", "r2"}    \* concurrent RPC requests
Accounts == {1}
Assets == {0}

Nil == "nil"                  \* Go's nil error
ErrNotFound == "ErrNotFound"  \* mempool.ErrNotFound / asset.ErrNotFound

\* ------------------------------------------------------------ decimal text
DigitChars == <<"0", "1", "2", "3", "4", "5", "6", "7", "8", "9">>

IsDigit(c) == \E i \in 1..10 : DigitChars[i] = c

DigitVal(c) == (CHOOSE i \in 1..10 : DigitChars[i] = c) - 1

RECURSIVE DigitsVal(_)
DigitsVal(s) ==
    IF s = <<>> THEN 0
    ELSE DigitsVal(SubSeq(s, 1, Len(s) - 1)) * 10 + DigitVal(s[Len(s)])

RECURSIVE FormatNat(_)
FormatNat(n) ==
    IF n < 10 THEN <<DigitChars[n + 1]>>
    ELSE FormatNat(n \div 10) \o <<DigitChars[(n % 10) + 1]>>

\* strconv.FormatInt(n, 10)
FormatInt(n) == IF n < 0 THEN <<"-">> \o FormatNat(-n) ELSE FormatNat(n)

\* the digits of a signed decimal text, without its sign
Unsigned(s) == IF s # <<>> /\ s[1] \in {"-", "+"} THEN Tail(s) ELSE s

\* strconv.ParseInt(s, 10, 64): err is "nil" or "ParseError"
ParseInt(s) ==
    LET body == Unsigned(s)
        ok == body # <<>> /\ \A i \in 1..Len(body) : IsDigit(body[i])
    IN  IF ~ok THEN [err |-> "ParseError", val |-> 0]
        ELSE [err |-> Nil,
              val |-> IF s[1] = "-" THEN 0 - DigitsVal(body) ELSE DigitsVal(body)]

\* util.ComputeNewBalance(GeneralAssetType, balance, balanceDelta):
\* both operands parsed as big integers, added, printed in decimal
ComputeNewBalance(balance, balanceDelta) ==
    LET b == ParseInt(balance)
        d == ParseInt(balanceDelta)
    IN  IF b.err # Nil \/ d.err # Nil
        THEN [err |-> "ComputationError", val |-> <<>>]
        ELSE [err |-> Nil, val |-> FormatInt(b.val + d.val)]

\* ----------------------------------------------------------- key derivation
GetAccountKey(accountIndex) == <<"account", accountIndex>>

GetAccountAssetUniqueKey(accountIndex, assetId) == <<"asset", accountIndex, assetId>>

GetLockKey(key) == <<"lock", key>>

DataKeys ==
    {GetAccountKey(a) : a \in Accounts}
        \cup {GetAccountAssetUniqueKey(a, s) : a \in Accounts, s \in Assets}

LockKeys == {GetLockKey(k) : k \in DataKeys}

\* ------------------------------------------------------------------- state
VARIABLES
    accountHistory,   \* AccountHistoryModel: account -> [found, Nonce]
    mempoolTx,        \* MempoolModel: account -> latest pending tx [found, Nonce]
    assetHistory,     \* AssetHistoryModel: (account, asset) -> [found, Balance]
    assetTable,       \* AssetModel: (account, asset) -> [found, Balance]
    mempoolDetails,   \* MempoolDetailModel: (account, asset) -> latest pending delta
                      \*   [found, Balance, BalanceDelta]
    cache,            \* redis: data key -> [val, ttl, age]; ttl = 0 is no entry,
                      \*   age the ticks since the entry was written
    lock,             \* redis: lock key -> [holder, ttl]; holder "none" is free
    frame,            \* per request: program counter and the locals of the running call
    rpc               \* the endpoint whose requests the run issues

vars == <<accountHistory, mempoolTx, assetHistory, assetTable, mempoolDetails,
          cache, lock, frame, rpc>>

stores == <<accountHistory, assetHistory, assetTable, mempoolDetails, rpc>>

\* rows of the stores; found = FALSE is the store answering ErrNotFound
NoAccount == [found |-> FALSE, Nonce |-> 0]
NoTx == [found |-> FALSE, Nonce |-> 0]
NoAsset == [found |-> FALSE, Balance |-> <<>>]
NoDetail == [found |-> FALSE, Balance |-> <<>>, BalanceDelta |-> <<>>]

NoEntry == [val |-> <<>>, ttl |-> 0, age |-> 0]
FreeLock == [holder |-> "none", ttl |-> 0]

\* the locals of a call that has not started
IdleFrame ==
    [pc |-> "idle", fn |-> "none", accountIndex |-> 0, assetId |-> 0,
     Nonce |-> 0,             \* accountInfo.Nonce
     Balance |-> <<>>,        \* assetInfo.Balance
     cached |-> <<>>,         \* nonceStr / latestBalance as read from redis
     tryLockErr |-> "unset",  \* result of TryAcquireLock: "nil" or "err"
     l2MempoolTx |-> NoTx,    \* the pending tx read from the mempool
     mempoolDetail |-> NoDetail,  \* the pending delta read from the mempool
     status |-> "none",       \* how the call ended
     atCall |-> NoTx,         \* the account's pending tx when the call was made
     follows |-> "none",      \* the request that had returned when the call was made
     consulted |-> {},        \* stores read by this call
     failed |-> {},           \* backends that failed under this call: "cache", "store"
     wrote |-> FALSE,         \* this call executed Setex
     released |-> FALSE]      \* this call executed redisLock.Release

\* redis GET: "" when the key has no entry
RedisGet(key) == IF cache[key].ttl > 0 THEN cache[key].val ELSE <<>>

\* redis SETEX key value seconds
RedisSetex(key, value, seconds) ==
    [cache EXCEPT ![key] = [val |-> value, ttl |-> seconds, age |-> 0]]

\* redis EXPIRE key seconds: only an existing entry gets the new TTL
RedisExpire(key, seconds) ==
    IF cache[key].ttl > 0 THEN [cache EXCEPT ![key].ttl = seconds] ELSE cache

\* RedisLock.Acquire: SET lockKey id NX PX ttl
LockAcquire(lockKey, p) ==
    [lock EXCEPT ![lockKey] = [holder |-> p, ttl |-> LockExpiryTime]]

\* RedisLock.Release: deletes the key only when it still carries this lock's id
LockRelease(lockKey, p) ==
    IF lock[lockKey].holder = p THEN [lock EXCEPT ![lockKey] = FreeLock] ELSE lock

PersistedNonce == 9

PendingDeltas ==
    {[found |-> TRUE, Balance |-> <<"1", "0">>, BalanceDelta |-> <<"-", "1">>],
     [found |-> TRUE, Balance |-> <<"5">>, BalanceDelta |-> <<"a", "b", "c">>],
     [found |-> TRUE, Balance |-> <<"x">>, BalanceDelta |-> <<"1">>]}

\* The two endpoints share no data key and no lock key, so a run issues the
\* requests of one of them, against every content of the stores it reads.
Init ==
    /\ rpc \in {"GetLatestAccountInfo", "GetLatestAsset"}
    /\ accountHistory \in [Accounts -> {NoAccount, [found |-> TRUE, Nonce |-> PersistedNonce]}]
    /\ mempoolTx = [a \in Accounts |-> NoTx]
    /\ assetHistory \in [Accounts \X Assets -> {NoAsset, [found |-> TRUE, Balance |-> <<"7">>]}]
    /\ assetTable \in [Accounts \X Assets -> {NoAsset, [found |-> TRUE, Balance |-> <<"3">>]}]
    /\ mempoolDetails \in [Accounts \X Assets -> {NoDetail} \cup PendingDeltas]
    /\ rpc = "GetLatestAccountInfo" =>
            /\ assetHistory = [x \in Accounts \X Assets |-> NoAsset]
            /\ assetTable = [x \in Accounts \X Assets |-> NoAsset]
            /\ mempoolDetails = [x \in Accounts \X Assets |-> NoDetail]
    /\ rpc = "GetLatestAsset" => accountHistory = [a \in Accounts |-> NoAccount]
    /\ cache = [k \in DataKeys |-> NoEntry]
    /\ lock = [k \in LockKeys |-> FreeLock]
    /\ frame = [p \in Procs |-> IdleFrame]

Set(p, f) == frame' = [frame EXCEPT ![p] = f]

\* the call ends with the given outcome
Return(f, status) == [f EXCEPT !.pc = "done", !.status = status]

\* ------------------------------------------------------------- environment
\* a new transaction of a registered account enters the mempool; nonces only grow
SubmitTx(a) ==
    /\ accountHistory[a].found
    /\ mempoolTx[a].Nonce < accountHistory[a].Nonce + MaxNonce
    /\ mempoolTx' = [mempoolTx EXCEPT ![a] =
                        [found |-> TRUE,
                         Nonce |-> IF @.found THEN @.Nonce + 1
                                   ELSE accountHistory[a].Nonce + 1]]
    /\ UNCHANGED <<stores, cache, lock, frame>>

\* ages are counted up to one tick past the TTL
MaxAge == BalanceExpiryTime + 1

\* one unit of time passes: every TTL runs down, entries at zero disappear
Tick ==
    /\ cache' = [k \in DataKeys |->
                    IF cache[k].ttl > 1
                    THEN [cache[k] EXCEPT !.ttl = @ - 1,
                                          !.age = IF @ < MaxAge THEN @ + 1 ELSE @]
                    ELSE NoEntry]
    /\ lock' = [k \in LockKeys |->
                    IF lock[k].ttl > 1 THEN [lock[k] EXCEPT !.ttl = @ - 1] ELSE FreeLock]
    /\ UNCHANGED <<stores, mempoolTx, frame>>

\* ------------------------------------------------------------ entry, exit
\* the request whose call had returned, and was not yet collected, if any
Predecessor(p) ==
    IF \E q \in Procs \ {p} : frame[q].pc = "done"
    THEN CHOOSE q \in Procs \ {p} : frame[q].pc = "done"
    ELSE "none"

CallAccount(p, a) ==
    /\ rpc = "GetLatestAccountInfo"
    /\ frame[p].pc = "idle"
    /\ Set(p, [IdleFrame EXCEPT !.pc = "acc_history", !.fn = "GetLatestAccountInfo",
                                !.accountIndex = a, !.atCall = mempoolTx[a],
                                !.follows = Predecessor(p)])
    /\ UNCHANGED <<stores, mempoolTx, cache, lock>>

CallAsset(p, a, s) ==
    /\ rpc = "GetLatestAsset"
    /\ frame[p].pc = "idle"
    /\ Set(p, [IdleFrame EXCEPT !.pc = "ast_get", !.fn = "GetLatestAsset",
                                !.accountIndex = a, !.assetId = s,
                                !.Balance = <<"0">>, !.follows = Predecessor(p)])
    /\ UNCHANGED <<stores, mempoolTx, cache, lock>>

\* the caller takes the result; the call's lock handle is gone, so a lock it
\* still holds can only run out by its TTL
Finish(p) ==
    /\ frame[p].pc = "done"
    /\ frame' = [q \in Procs |->
                    IF q = p THEN IdleFrame
                    ELSE [frame[q] EXCEPT !.follows = IF @ = p THEN "none" ELSE @]]
    /\ lock' = [k \in LockKeys |->
                    IF lock[k].holder = p THEN [lock[k] EXCEPT !.holder = "orphan"]
                    ELSE lock[k]]
    /\ UNCHANGED <<stores, mempoolTx, cache>>

\* the error a store read returns: a backend fault, ErrNotFound, or nil
ReadErr(fault, row) ==
    IF fault THEN "StorageError" ELSE IF ~row.found THEN ErrNotFound ELSE Nil

\* faulty variant: the lock is granted whoever holds it
TryAcquireLock_Always(p, lockKey, fault) ==
    [err |-> Nil, lock |-> LockAcquire(lockKey, p)]

\* TryAcquireLock(redisLock): one attempt; an error when the lock backend
\* fails or the lock is taken
TryAcquireLock(p, lockKey, fault) ==
    IF ~fault /\ lock[lockKey].holder = "none"
    THEN [err |-> Nil, lock |-> LockAcquire(lockKey, p)]
    ELSE [err |-> "err", lock |-> lock]

\* ------------------------------------------------- GetLatestAccountInfo
\* svcCtx.AccountHistoryModel.GetAccountByAccountIndex and the conversion
AccHistory(p) ==
    /\ frame[p].pc = "acc_history"
    /\ \E fault \in BOOLEAN :
        LET f == [frame[p] EXCEPT !.consulted = @ \cup {"accountHistory"},
                                  !.failed = IF fault THEN @ \cup {"store"} ELSE @]
            accountHistoryRow == accountHistory[f.accountIndex]
            err == ReadErr(fault, accountHistoryRow)
        IN  Set(p, IF err # Nil
                   THEN Return(f, IF err = ErrNotFound THEN "InvalidAccount" ELSE err)
                   ELSE [f EXCEPT !.pc = "acc_get", !.Nonce = accountHistoryRow.Nonce])
    /\ UNCHANGED <<stores, mempoolTx, cache, lock>>

\* faulty variant: the cached nonce is not put into accountInfo
AccHit_KeepPersisted(f, nonceStr, nonce) ==
    [f EXCEPT !.pc = "acc_expire", !.cached = nonceStr]

\* nonceStr != "": accountInfo.Nonce = the parsed nonceStr
AccHit(f, nonceStr, nonce) ==
    [f EXCEPT !.pc = "acc_expire", !.cached = nonceStr, !.Nonce = nonce]

\* svcCtx.RedisConnection.Get(key) and the parse of a hit
AccGet(p) ==
    /\ frame[p].pc = "acc_get"
    /\ \E fault \in BOOLEAN :
        LET f == [frame[p] EXCEPT !.consulted = @ \cup {"cache"},
                                  !.failed = IF fault THEN @ \cup {"cache"} ELSE @]
            key == GetAccountKey(f.accountIndex)
            nonceStr == RedisGet(key)
            parsed == ParseInt(nonceStr)
        IN  Set(p, IF fault THEN Return(f, "BackendError")
                   ELSE IF nonceStr # <<>>
                   THEN IF parsed.err # Nil THEN Return(f, parsed.err)
                        ELSE AccHit(f, nonceStr, parsed.val)
                   ELSE [f EXCEPT !.pc = "acc_lock"])
    /\ UNCHANGED <<stores, mempoolTx, cache, lock>>

\* faulty variant: the hit writes the entry anew instead of touching it
AccExpire_Rewrite(p) ==
    /\ frame[p].pc = "acc_expire"
    /\ \E fault \in BOOLEAN :
        /\ cache' = IF fault THEN cache
                    ELSE RedisSetex(GetAccountKey(frame[p].accountIndex),
                                    FormatInt(frame[p].Nonce), BalanceExpiryTime)
        /\ Set(p, Return([frame[p] EXCEPT !.failed = IF fault THEN @ \cup {"cache"} ELSE @],
                         "ok"))
    /\ UNCHANGED <<stores, mempoolTx, lock>>

\* svcCtx.RedisConnection.Expire(key, BalanceExpiryTime); its error is dropped
AccExpire(p) ==
    /\ frame[p].pc = "acc_expire"
    /\ \E fault \in BOOLEAN :
        /\ cache' = IF fault THEN cache
                    ELSE RedisExpire(GetAccountKey(frame[p].accountIndex), BalanceExpiryTime)
        /\ Set(p, Return([frame[p] EXCEPT !.failed = IF fault THEN @ \cup {"cache"} ELSE @],
                         "ok"))
    /\ UNCHANGED <<stores, mempoolTx, lock>>

\* err = TryAcquireLock(redisLock)
AccLock(p) ==
    /\ frame[p].pc = "acc_lock"
    /\ \E fault \in BOOLEAN :
        LET lockKey == GetLockKey(GetAccountKey(frame[p].accountIndex))
            try == TryAcquireLock(p, lockKey, fault)
        IN  /\ lock' = try.lock
            /\ Set(p, [frame[p] EXCEPT !.pc = "acc_mempool", !.tryLockErr = try.err])
    /\ UNCHANGED <<stores, mempoolTx, cache>>

\* faulty variant: ErrNotFound of the mempool is handed to the caller
AccNoPending_Fail(f, err) == Return(f, ErrNotFound)

\* faulty variant: the persisted nonce is cached when the lock is held
AccNoPending_Cache(f, err) ==
    IF f.tryLockErr = Nil THEN [f EXCEPT !.pc = "acc_setex"] ELSE Return(f, "ok")

\* the ErrNotFound branch: "if err == nil { redisLock.Release() }", return accountInfo
AccNoPending(f, err) ==
    IF err = Nil THEN [f EXCEPT !.pc = "acc_release", !.status = "ok"]
    ELSE Return(f, "ok")

\* faulty variant: the nonce of the account history is kept
AccApplyPending_KeepPersisted(f, l2MempoolTx) ==
    [f EXCEPT !.l2MempoolTx = l2MempoolTx]

\* accountInfo.Nonce = l2MempoolTx.Nonce
AccApplyPending(f, l2MempoolTx) ==
    [f EXCEPT !.l2MempoolTx = l2MempoolTx, !.Nonce = l2MempoolTx.Nonce]

\* "if err == nil { Setex; Release }" after the mempool read
AccRepopulate(f, err) ==
    IF err = Nil THEN [f EXCEPT !.pc = "acc_setex"] ELSE Return(f, "ok")

\* l2MempoolTx, err := svcCtx.MempoolModel.GetLatestL2MempoolTxByAccountIndex:
\* this err is a new variable of the else block, it hides the lock's err
AccMempool(p) ==
    /\ frame[p].pc = "acc_mempool"
    /\ \E fault \in BOOLEAN :
        LET f == [frame[p] EXCEPT !.consulted = @ \cup {"mempool"},
                                  !.failed = IF fault THEN @ \cup {"store"} ELSE @]
            l2MempoolTx == mempoolTx[f.accountIndex]
            err == ReadErr(fault, l2MempoolTx)
        IN  Set(p, IF err # Nil
                   THEN IF err # ErrNotFound THEN Return(f, err)
                        ELSE AccNoPending(f, err)
                   ELSE AccRepopulate(AccApplyPending(f, l2MempoolTx), err))
    /\ UNCHANGED <<stores, mempoolTx, cache, lock>>

\* svcCtx.RedisConnection.Setex(key, FormatInt(accountInfo.Nonce), BalanceExpiryTime)
AccSetex(p) ==
    /\ frame[p].pc = "acc_setex"
    /\ \E fault \in BOOLEAN :
        /\ cache' = IF fault THEN cache
                    ELSE RedisSetex(GetAccountKey(frame[p].accountIndex),
                                    FormatInt(frame[p].Nonce), BalanceExpiryTime)
        /\ Set(p, [frame[p] EXCEPT !.pc = "acc_release", !.wrote = TRUE, !.status = "ok",
                                   !.failed = IF fault THEN @ \cup {"cache"} ELSE @])
    /\ UNCHANGED <<stores, mempoolTx, lock>>

\* redisLock.Release()
AccRelease(p) ==
    /\ frame[p].pc = "acc_release"
    /\ lock' = LockRelease(GetLockKey(GetAccountKey(frame[p].accountIndex)), p)
    /\ Set(p, [frame[p] EXCEPT !.pc = "done", !.released = TRUE])
    /\ UNCHANGED <<stores, mempoolTx, cache>>

\* ------------------------------------------------------- GetLatestAsset
\* faulty variant: a hit is followed by the recomputation of a miss
AstHit_Recompute(f, latestBalance) ==
    [f EXCEPT !.cached = latestBalance, !.pc = "ast_lock"]

\* latestBalance != "": assetInfo.Balance = latestBalance
AstHit(f, latestBalance) ==
    Return([f EXCEPT !.cached = latestBalance, !.Balance = latestBalance], "ok")

\* latestBalance, err := svcCtx.RedisConnection.Get(key)
AstGet(p) ==
    /\ frame[p].pc = "ast_get"
    /\ \E fault \in BOOLEAN :
        LET f == [frame[p] EXCEPT !.consulted = @ \cup {"cache"},
                                  !.failed = IF fault THEN @ \cup {"cache"} ELSE @]
            key == GetAccountAssetUniqueKey(f.accountIndex, f.assetId)
            latestBalance == RedisGet(key)
        IN  Set(p, IF fault THEN Return(f, "BackendError")
                   ELSE IF latestBalance # <<>>
                   THEN AstHit(f, latestBalance)
                   ELSE [f EXCEPT !.pc = "ast_lock"])
    /\ UNCHANGED <<stores, mempoolTx, cache, lock>>

\* tryLockErr := TryAcquireLock(redisLock)
AstLock(p) ==
    /\ frame[p].pc = "ast_lock"
    /\ \E fault \in BOOLEAN :
        LET key == GetAccountAssetUniqueKey(frame[p].accountIndex, frame[p].assetId)
            try == TryAcquireLock(p, GetLockKey(key), fault)
        IN  /\ lock' = try.lock
            /\ Set(p, [frame[p] EXCEPT !.pc = "ast_history", !.tryLockErr = try.err])
    /\ UNCHANGED <<stores, mempoolTx, cache>>

\* the exit of a failed store read: release when tryLockErr == nil, then return
FailHeld(f, status) ==
    IF f.tryLockErr = Nil THEN [f EXCEPT !.pc = "ast_release", !.status = status]
    ELSE Return(f, status)

\* faulty variant: the asset table is read although asset history has the row
AstUseHistory_FallThrough(f, resAccountSingleAsset) ==
    [f EXCEPT !.pc = "ast_table"]

\* assetInfo.Balance = resAccountSingleAsset.Balance
AstUseHistory(f, resAccountSingleAsset) ==
    [f EXCEPT !.pc = "ast_mempool", !.Balance = resAccountSingleAsset.Balance]

\* svcCtx.AssetHistoryModel.GetSingleAccountAssetHistory(accountIndex, assetId)
AstHistory(p) ==
    /\ frame[p].pc = "ast_history"
    /\ \E fault \in BOOLEAN :
        LET f == [frame[p] EXCEPT !.consulted = @ \cup {"assetHistory"},
                                  !.failed = IF fault THEN @ \cup {"store"} ELSE @]
            resAccountSingleAsset == assetHistory[<<f.accountIndex, f.assetId>>]
            err == ReadErr(fault, resAccountSingleAsset)
        IN  Set(p, IF err # Nil
                   THEN IF err # ErrNotFound THEN FailHeld(f, err)
                        ELSE [f EXCEPT !.pc = "ast_table"]
                   ELSE AstUseHistory(f, resAccountSingleAsset))
    /\ UNCHANGED <<stores, mempoolTx, cache, lock>>

\* what an ErrNotFound answer carries as its record: a nil pointer or an
\* empty record
NotFoundRecords == {"nil", "empty"}

\* svcCtx.AssetModel.GetSingleAccountAsset(accountIndex, assetId), and
\* assetInfo.Balance = accountAssetInfo.Balance, which runs on ErrNotFound too
AstTable(p) ==
    /\ frame[p].pc = "ast_table"
    /\ \E fault \in BOOLEAN, record \in NotFoundRecords :
        LET f == [frame[p] EXCEPT !.consulted = @ \cup {"assetTable"},
                                  !.failed = IF fault THEN @ \cup {"store"} ELSE @]
            accountAssetInfo == assetTable[<<f.accountIndex, f.assetId>>]
            err == ReadErr(fault, accountAssetInfo)
        IN  Set(p, IF err # Nil /\ err # ErrNotFound THEN FailHeld(f, err)
                   ELSE IF err = ErrNotFound /\ record = "nil" THEN Return(f, "panic")
                   ELSE [f EXCEPT !.pc = "ast_mempool",
                                  !.Balance = accountAssetInfo.Balance])
    /\ UNCHANGED <<stores, mempoolTx, cache, lock>>

\* the end of the miss branch: Setex and Release when tryLockErr == nil
Repopulate(f) ==
    IF f.tryLockErr = Nil THEN [f EXCEPT !.pc = "ast_setex", !.status = "ok"]
    ELSE Return(f, "ok")

\* faulty variant: the error of ComputeNewBalance is dropped
AstApplyDelta_IgnoreError(f, new) == Repopulate([f EXCEPT !.Balance = new.val])

\* latestBalance, err = util.ComputeNewBalance(...): on an error Release and
\* return it, else assetInfo.Balance = latestBalance
AstApplyDelta(f, new) ==
    IF new.err # Nil THEN [f EXCEPT !.pc = "ast_release", !.status = new.err]
    ELSE Repopulate([f EXCEPT !.Balance = new.val])

\* svcCtx.MempoolDetailModel.GetLatestAccountAssetMempoolDetail and
\* util.ComputeNewBalance; both error exits release without testing tryLockErr
AstMempool(p) ==
    /\ frame[p].pc = "ast_mempool"
    /\ \E fault \in BOOLEAN :
        LET f == [frame[p] EXCEPT !.consulted = @ \cup {"mempoolDetail"},
                                  !.failed = IF fault THEN @ \cup {"store"} ELSE @]
            mempoolDetail == mempoolDetails[<<f.accountIndex, f.assetId>>]
            err == ReadErr(fault, mempoolDetail)
            new == ComputeNewBalance(mempoolDetail.Balance, mempoolDetail.BalanceDelta)
            g == [f EXCEPT !.mempoolDetail = mempoolDetail]
        IN  Set(p, IF err # Nil
                   THEN IF err # ErrNotFound
                        THEN [f EXCEPT !.pc = "ast_release", !.status = err]
                        ELSE Repopulate(f)
                   ELSE AstApplyDelta(g, new))
    /\ UNCHANGED <<stores, mempoolTx, cache, lock>>

\* faulty variant: the balance is cached for longer than BalanceExpiryTime
AstSetex_LongerExpiry(p) ==
    /\ frame[p].pc = "ast_setex"
    /\ \E fault \in BOOLEAN :
        /\ cache' = IF fault THEN cache
                    ELSE RedisSetex(GetAccountAssetUniqueKey(frame[p].accountIndex,
                                                             frame[p].assetId),
                                    frame[p].Balance, BalanceExpiryTime + 1)
        /\ Set(p, [frame[p] EXCEPT !.pc = "ast_release", !.wrote = TRUE,
                                   !.failed = IF fault THEN @ \cup {"cache"} ELSE @])
    /\ UNCHANGED <<stores, mempoolTx, lock>>

\* svcCtx.RedisConnection.Setex(key, assetInfo.Balance, BalanceExpiryTime)
AstSetex(p) ==
    /\ frame[p].pc = "ast_setex"
    /\ \E fault \in BOOLEAN :
        /\ cache' = IF fault THEN cache
                    ELSE RedisSetex(GetAccountAssetUniqueKey(frame[p].accountIndex,
                                                             frame[p].assetId),
                                    frame[p].Balance, BalanceExpiryTime)
        /\ Set(p, [frame[p] EXCEPT !.pc = "ast_release", !.wrote = TRUE,
                                   !.failed = IF fault THEN @ \cup {"cache"} ELSE @])
    /\ UNCHANGED <<stores, mempoolTx, lock>>

\* redisLock.Release(), on the error exits and after Setex
AstRelease(p) ==
    /\ frame[p].pc = "ast_release"
    /\ lock' = LockRelease(GetLockKey(GetAccountAssetUniqueKey(frame[p].accountIndex,
                                                               frame[p].assetId)), p)
    /\ Set(p, [frame[p] EXCEPT !.pc = "done", !.released = TRUE])
    /\ UNCHANGED <<stores, mempoolTx, cache>>

\* ------------------------------------------------------------ specification
Step(p) ==
    \/ \E a \in Accounts : CallAccount(p, a)
    \/ \E a \in Accounts, s \in Assets : CallAsset(p, a, s)
    \/ AccHistory(p)
    \/ AccGet(p)
    \/ AccExpire(p)
    \/ AccLock(p)
    \/ AccMempool(p)
    \/ AccSetex(p)
    \/ AccRelease(p)
    \/ AstGet(p)
    \/ AstLock(p)
    \/ AstHistory(p)
    \/ AstTable(p)
    \/ AstMempool(p)
    \/ AstSetex(p)
    \/ AstRelease(p)
    \/ Finish(p)

Next ==
    \/ \E p \in Procs : Step(p)
    \/ \E a \in Accounts : SubmitTx(a)
    \/ Tick

Spec == Init /\ [][Next]_vars

TypeOK ==
    /\ \A k \in DataKeys : cache[k].ttl \in 0..BalanceExpiryTime /\ cache[k].age \in 0..MaxAge
    /\ \A k \in LockKeys : lock[k].holder \in Procs \cup {"none", "orphan"}
    /\ \A k \in LockKeys : lock[k].ttl \in 0..LockExpiryTime

\* ---------------------------------------------------------------- properties
Done(p) == frame[p].pc = "done"

IsAccount(f) == f.fn = "GetLatestAccountInfo"

IsAsset(f) == f.fn = "GetLatestAsset"

\* the data key a call works on
KeyOf(f) ==
    IF IsAccount(f) THEN GetAccountKey(f.accountIndex)
    ELSE GetAccountAssetUniqueKey(f.accountIndex, f.assetId)

\* the call read "" from redis and went on to the lock
Missed(f) == f.tryLockErr # "unset"

\* the call ended on a backend failure of a store or of the cache
Faulted(f) == f.status \in {"StorageError", "BackendError"}

AssetOf(f) == <<f.accountIndex, f.assetId>>

\* C1: a call that has returned no longer holds the lock it acquired,
\* whatever exit it took.
C1_NoLockHeldAfterReturn ==
    \A p \in Procs :
        Done(p) /\ Missed(frame[p]) => lock[GetLockKey(KeyOf(frame[p]))].holder # p

\* C2: a call executes Setex only when its own TryAcquireLock returned nil.
C2_WriteOnlyWithLock ==
    \A p \in Procs : frame[p].wrote => frame[p].tryLockErr = Nil

\* C3: for an (account, asset) without cache entry, asset-history row,
\* asset-table row and pending delta, GetLatestAsset returns Balance "0"
\* without error.
C3_UnreferencedAssetIsZero ==
    \A p \in Procs :
        LET f == frame[p] IN
        (/\ Done(p) /\ IsAsset(f) /\ Missed(f) /\ ~Faulted(f)
         /\ ~assetHistory[AssetOf(f)].found
         /\ ~assetTable[AssetOf(f)].found
         /\ ~mempoolDetails[AssetOf(f)].found)
            => f.status = "ok" /\ f.Balance = <<"0">>

\* C4 (as stated): for an account with a pending transaction,
\* GetLatestAccountInfo returns the pending record's nonce.  The pending
\* transaction is the same from the call to the return.
C4_PendingNonceAlways ==
    \A p \in Procs :
        LET f == frame[p] IN
        (/\ Done(p) /\ IsAccount(f) /\ f.status = "ok"
         /\ f.atCall.found /\ f.atCall = mempoolTx[f.accountIndex])
            => f.Nonce = mempoolTx[f.accountIndex].Nonce

\* C4 (amended): for an account with a pending transaction, a
\* GetLatestAccountInfo call that misses the cache and returns successfully
\* returns the pending record's nonce, not the persisted one.
C4_PendingNonceOnMiss ==
    \A p \in Procs :
        LET f == frame[p] IN
        (/\ Done(p) /\ IsAccount(f) /\ f.status = "ok" /\ Missed(f)
         /\ f.atCall.found /\ f.atCall = mempoolTx[f.accountIndex])
            => /\ f.Nonce = mempoolTx[f.accountIndex].Nonce
               /\ f.Nonce # accountHistory[f.accountIndex].Nonce

C4_Witness ==
    \E p \in Procs :
        /\ Done(p) /\ IsAccount(frame[p]) /\ frame[p].status = "ok" /\ Missed(frame[p])
        /\ frame[p].atCall.found /\ frame[p].atCall = mempoolTx[frame[p].accountIndex]
        /\ frame[p].Nonce = PersistedNonce + 1

WellFormed(text) == ParseInt(text).err = Nil

\* C6: with no cache entry and a pending delta of BaseBalance B and
\* BalanceDelta D, GetLatestAsset returns exactly B + D, B being the base of
\* the pending record, also for a negative D.
C6_PendingDeltaApplied ==
    \A p \in Procs :
        LET f == frame[p]
            delta == mempoolDetails[AssetOf(f)]
        IN  (/\ Done(p) /\ IsAsset(f) /\ Missed(f) /\ ~Faulted(f)
             /\ delta.found /\ WellFormed(delta.Balance) /\ WellFormed(delta.BalanceDelta))
                => /\ f.status = "ok"
                   /\ f.Balance = FormatInt(ParseInt(delta.Balance).val
                                            + ParseInt(delta.BalanceDelta).val)

\* C7: with no cache entry and no pending delta, GetLatestAsset returns the
\* asset-history balance when that row exists, otherwise the asset-table
\* balance when that row exists; the asset table is read only after asset
\* history answered ErrNotFound.
C7_FinalizedTiersInOrder ==
    \A p \in Procs :
        LET f == frame[p]
            history == assetHistory[AssetOf(f)]
            table == assetTable[AssetOf(f)]
        IN  /\ "assetTable" \in f.consulted
                => "assetHistory" \in f.consulted /\ ~history.found
            /\ (/\ Done(p) /\ IsAsset(f) /\ Missed(f) /\ ~Faulted(f)
                /\ ~mempoolDetails[AssetOf(f)].found)
                   => /\ history.found => f.status = "ok" /\ f.Balance = history.Balance
                      /\ ~history.found /\ table.found
                            => f.status = "ok" /\ f.Balance = table.Balance

C7_Witness ==
    \E p \in Procs :
        /\ Done(p) /\ IsAsset(frame[p]) /\ Missed(frame[p]) /\ frame[p].status = "ok"
        /\ ~mempoolDetails[AssetOf(frame[p])].found
        /\ ~assetHistory[AssetOf(frame[p])].found
        /\ assetTable[AssetOf(frame[p])].found
        /\ frame[p].Balance = <<"3">>

\* C8: a call whose TryAcquireLock failed on a cache miss returns what a call
\* holding the lock returns from the same reads, does not fail because of
\* the lock, and executes no Setex.
C8_LockFailureOnlySkipsRepopulation ==
    \A p \in Procs :
        LET f == frame[p] IN
        (Done(p) /\ Missed(f) /\ f.tryLockErr # Nil)
            => /\ ~f.wrote
               /\ f.status # "err"
               /\ \A q \in Procs :
                    LET g == frame[q] IN
                    (/\ Done(q) /\ g.tryLockErr = Nil /\ g.fn = f.fn /\ KeyOf(g) = KeyOf(f)
                     /\ g.status = "ok" /\ f.status = "ok"
                     /\ g.l2MempoolTx = f.l2MempoolTx /\ g.consulted = f.consulted)
                        => g.Nonce = f.Nonce /\ g.Balance = f.Balance

LowerTiers == {"accountHistory", "mempool", "assetHistory", "assetTable", "mempoolDetail"}

\* C9 (as stated): a call that read an entry from the cache returns it and
\* reads no store below the cache.
C9_HitConsultsNoTier ==
    \A p \in Procs :
        frame[p].cached # <<>> => frame[p].consulted \cap LowerTiers = {}

\* C9 (amended): a call that read an entry from the cache returns it and
\* reads neither the mempool nor the asset stores; GetLatestAccountInfo has
\* read the account history before it asks the cache, GetLatestAsset has
\* read nothing.
C9_HitConsultsNoTierAfterCache ==
    \A p \in Procs :
        LET f == frame[p] IN
        f.cached # <<>>
            => /\ f.consulted \cap (LowerTiers \ {"accountHistory"}) = {}
               /\ IsAsset(f) => f.consulted = {"cache"}
               /\ IsAccount(f) => f.consulted = {"accountHistory", "cache"}
               /\ ~Missed(f)
               /\ Done(p) => /\ f.status = "ok"
                             /\ IsAsset(f) => f.Balance = f.cached
                             /\ IsAccount(f) => FormatInt(f.Nonce) = f.cached

C9_Witness ==
    \E p \in Procs :
        /\ Done(p) /\ IsAccount(frame[p]) /\ frame[p].cached # <<>>
        /\ frame[p].Nonce = PersistedNonce + 1
        /\ "accountHistory" \in frame[p].consulted

\* C10 (as stated): after a GetLatestAccountInfo call that missed the cache,
\* got the lock and found no pending transaction, the account's nonce key
\* holds the persisted nonce in decimal.
C10_PersistedNonceCached ==
    \A p \in Procs :
        LET f == frame[p]
            entry == cache[GetAccountKey(f.accountIndex)]
        IN  (/\ Done(p) /\ IsAccount(f) /\ f.status = "ok" /\ Missed(f)
             /\ f.tryLockErr = Nil /\ ~mempoolTx[f.accountIndex].found)
                => /\ entry.ttl > 0
                   /\ entry.val = FormatInt(accountHistory[f.accountIndex].Nonce)

\* C10 (amended): a GetLatestAccountInfo call that missed the cache and found
\* no pending transaction returns the persisted nonce and executes no Setex,
\* with or without the lock: while the account has no pending transaction
\* its nonce key has no cache entry.
C10_NothingCachedWithoutPending ==
    /\ \A a \in Accounts : ~mempoolTx[a].found => cache[GetAccountKey(a)] = NoEntry
    /\ \A p \in Procs :
        LET f == frame[p] IN
        (Done(p) /\ IsAccount(f) /\ f.status = "ok" /\ Missed(f) /\ ~f.l2MempoolTx.found)
            => ~f.wrote /\ f.Nonce = accountHistory[f.accountIndex].Nonce

C10_Witness ==
    \E p \in Procs :
        /\ Done(p) /\ IsAccount(frame[p]) /\ frame[p].status = "ok"
        /\ frame[p].tryLockErr = Nil
        /\ ~mempoolTx[frame[p].accountIndex].found
        /\ frame[p].Nonce = PersistedNonce
        /\ cache[GetAccountKey(frame[p].accountIndex)] = NoEntry

\* ------------------------------------------------- calls in succession
\* a request is made only while no other call is running
NextSuccession ==
    \/ \E p \in Procs :
        /\ frame[p].pc = "idle" => \A q \in Procs \ {p} : frame[q].pc \in {"idle", "done"}
        /\ Step(p)
    \/ \E a \in Accounts : SubmitTx(a)
    \/ Tick

SpecSuccession == Init /\ [][NextSuccession]_vars

\* q's GetLatestAccountInfo call was made right after p's returned, p's call
\* missed the cache and held the lock, the mempool is as it was when p was
\* called, and no backend failed
Succeeds(p, q) ==
    LET f == frame[p]
        g == frame[q]
    IN  /\ Done(p) /\ Done(q) /\ g.follows = p
        /\ IsAccount(f) /\ IsAccount(g) /\ f.accountIndex = g.accountIndex
        /\ f.status = "ok" /\ Missed(f) /\ f.tryLockErr = Nil
        /\ f.atCall = mempoolTx[f.accountIndex] /\ g.atCall = mempoolTx[g.accountIndex]
        /\ f.failed = {} /\ g.failed = {}

\* C11 (as stated): of two GetLatestAccountInfo calls in immediate
\* succession, the first holding the lock, the second returns the same
\* record, from the cache entry the first wrote, reading neither history
\* nor mempool.
C11_SecondCallFromCacheOnly ==
    \A p, q \in Procs :
        Succeeds(p, q)
            => /\ frame[q].status = "ok" /\ frame[q].Nonce = frame[p].Nonce
               /\ frame[q].cached = FormatInt(frame[p].Nonce)
               /\ frame[q].consulted = {"cache"}

\* C11 (amended): of two GetLatestAccountInfo calls in immediate succession,
\* the first holding the lock, the second returns the same record.  When it
\* finds a cache entry, that is the pending nonce the first call wrote, and
\* it reads the account history but not the mempool; when the first call
\* found no pending transaction there is no entry and the second call reads
\* the mempool again.
C11_SuccessiveCallsAgree ==
    \A p, q \in Procs :
        Succeeds(p, q)
            => /\ frame[q].status = "ok" /\ frame[q].Nonce = frame[p].Nonce
               /\ frame[q].cached # <<>>
                    => /\ frame[p].l2MempoolTx.found /\ frame[p].wrote
                       /\ frame[q].cached = FormatInt(frame[p].Nonce)
                       /\ frame[q].consulted = {"accountHistory", "cache"}
               /\ ~frame[p].l2MempoolTx.found
                    => /\ frame[q].cached = <<>>
                       /\ frame[q].consulted = {"accountHistory", "cache", "mempool"}

C11_Witness ==
    \E p, q \in Procs :
        /\ Succeeds(p, q)
        /\ frame[q].cached # <<>>
        /\ frame[q].Nonce = PersistedNonce + 1
        /\ frame[p].Nonce = PersistedNonce + 1

\* the pending delta a call read has a malformed Balance or BalanceDelta
MalformedDelta(f) ==
    /\ f.mempoolDetail.found
    /\ ComputeNewBalance(f.mempoolDetail.Balance, f.mempoolDetail.BalanceDelta).err # Nil

\* C12: once GetLatestAsset has read a pending delta whose Balance or
\* BalanceDelta is malformed, the call ends with ComputationError, executes no
\* Setex, and none of its steps changes the cache.
C12_MalformedDeltaFailsWithoutWrite ==
    [][\A p \in Procs :
        frame'[p].pc # frame[p].pc /\ MalformedDelta(frame'[p])
            => /\ frame'[p].status = "ComputationError"
               /\ ~frame'[p].wrote
               /\ cache' = cache]_vars

C12_Witness ==
    \E p \in Procs :
        /\ Done(p) /\ IsAsset(frame[p]) /\ MalformedDelta(frame[p])
        /\ frame[p].mempoolDetail.BalanceDelta = <<"a", "b", "c">>
        /\ frame[p].status = "ComputationError"

\* C13: TryAcquireLock returns nil to a call only when nobody holds the lock
\* of its key, and makes that call the holder for LockExpiryTime; while the
\* lock is held every other call's TryAcquireLock returns an error and leaves
\* the lock as it is.
C13_LockGrantedToOneAtATime ==
    [][\A q \in Procs :
        frame[q].tryLockErr = "unset" /\ frame'[q].tryLockErr # "unset"
            => LET k == GetLockKey(KeyOf(frame[q])) IN
               /\ frame'[q].tryLockErr = Nil
                    => /\ lock[k].holder = "none"
                       /\ lock'[k] = [holder |-> q, ttl |-> LockExpiryTime]
               /\ lock[k].holder # "none"
                    => frame'[q].tryLockErr = "err" /\ lock' = lock]_vars

C13_Witness ==
    \E p, q \in Procs :
        /\ p # q /\ KeyOf(frame[p]) = KeyOf(frame[q])
        /\ frame[p].tryLockErr = Nil /\ lock[GetLockKey(KeyOf(frame[p]))].holder = p
        /\ frame[q].tryLockErr = "err" /\ ~Done(q)

\* C14 (as stated): an entry is served for at most BalanceExpiryTime after
\* the Setex that wrote it, nonce entries as well as balance entries.
C14_EntryServedAtMostTTL ==
    \A k \in DataKeys : cache[k].ttl > 0 => cache[k].age < BalanceExpiryTime

\* C14 (amended): a balance entry is served for exactly BalanceExpiryTime
\* after the Setex that wrote it, so a cached balance is never older than
\* that; a nonce entry is served until BalanceExpiryTime after its Setex or
\* its latest hit, whichever is later, so its age has no bound.
C14_BalanceEntryServedAtMostTTL ==
    /\ \A a \in Accounts, s \in Assets :
        LET e == cache[GetAccountAssetUniqueKey(a, s)] IN
        e.ttl > 0 => e.age + e.ttl = BalanceExpiryTime
    /\ \A a \in Accounts :
        LET e == cache[GetAccountKey(a)] IN
        e.ttl > 0 => e.ttl <= BalanceExpiryTime /\ e.age + e.ttl >= BalanceExpiryTime
    /\ \A p \in Procs :
        Done(p) /\ IsAsset(frame[p]) /\ frame[p].cached # <<>>
            => cache[KeyOf(frame[p])].ttl = 0
               \/ cache[KeyOf(frame[p])].age < BalanceExpiryTime

\* a balance is served on the last tick before its expiry
C14_Witness ==
    \E p \in Procs :
        /\ Done(p) /\ IsAsset(frame[p]) /\ frame[p].cached # <<>>
        /\ cache[KeyOf(frame[p])].ttl = 1
        /\ cache[KeyOf(frame[p])].age = BalanceExpiryTime - 1

\* C15: a call in which Get, Setex or Expire failed does not return success.
C15_CacheFailurePropagates ==
    \A p \in Procs : Done(p) /\ "cache" \in frame[p].failed => frame[p].status # "ok"

\* C16: on a cache miss a call fails exactly when a store it read answered
\* an error other than ErrNotFound or ComputeNewBalance failed.
C16_FailsIffTierOrComputationFailed ==
    \A p \in Procs :
        Done(p) /\ Missed(frame[p])
            => (frame[p].status # "ok"
                    <=> ("store" \in frame[p].failed \/ MalformedDelta(frame[p])))

\* C17: a call executes Release only when its own TryAcquireLock returned nil.
C17_ReleaseOnlyAfterAcquire ==
    \A p \in Procs : frame[p].released => frame[p].tryLockErr = Nil

\* the balance the stores determine for an (account, asset): the pending
\* delta applied to its base balance, else the asset-history balance, else
\* the asset-table balance, else "0"
LatestBalance(x) ==
    IF mempoolDetails[x].found
    THEN ComputeNewBalance(mempoolDetails[x].Balance, mempoolDetails[x].BalanceDelta)
    ELSE [err |-> Nil,
          val |-> IF assetHistory[x].found THEN assetHistory[x].Balance
                  ELSE IF assetTable[x].found THEN assetTable[x].Balance
                  ELSE <<"0">>]

\* C18: while the stores do not change, the cache entry of a key is absent
\* or holds the one value the stores determine, and every call whose reads
\* succeed returns that value: the balance of the (account, asset), and the
\* persisted nonce of an account without pending transaction.
C18_CacheAbsentOrDetermined ==
    /\ \A a \in Accounts, s \in Assets :
        LatestBalance(<<a, s>>).err = Nil
            => cache[GetAccountAssetUniqueKey(a, s)].val \in {<<>>, LatestBalance(<<a, s>>).val}
    /\ \A p \in Procs :
        Done(p) /\ IsAsset(frame[p]) /\ frame[p].failed = {}
                /\ LatestBalance(AssetOf(frame[p])).err = Nil
            => /\ frame[p].status = "ok"
               /\ frame[p].Balance = LatestBalance(AssetOf(frame[p])).val
    /\ \A a \in Accounts :
        accountHistory[a].found /\ ~mempoolTx[a].found
            => cache[GetAccountKey(a)].val \in {<<>>, FormatInt(accountHistory[a].Nonce)}
    /\ \A p \in Procs :
        Done(p) /\ IsAccount(frame[p]) /\ frame[p].failed = {}
                /\ accountHistory[frame[p].accountIndex].found
                /\ ~mempoolTx[frame[p].accountIndex].found
            => /\ frame[p].status = "ok"
               /\ frame[p].Nonce = accountHistory[frame[p].accountIndex].Nonce

\* C19: no step of a call that hit the cache acquires or releases a lock or
\* executes Setex.  A GetLatestAsset hit returns at once and leaves the cache
\* as it is; a GetLatestAccountInfo hit changes at most the TTL of its own
\* entry, to BalanceExpiryTime, and neither its value nor any other entry.
C19_HitLeavesCacheValueAndLock ==
    [][\A p \in Procs :
        frame'[p].pc # frame[p].pc /\ frame'[p].cached # <<>>
            => LET g == frame'[p]
                   key == KeyOf(g)
               IN  /\ lock' = lock
                   /\ ~g.wrote /\ ~g.released /\ g.tryLockErr = "unset"
                   /\ IsAsset(g) => cache' = cache /\ g.pc = "done" /\ g.status = "ok"
                   /\ IsAccount(g)
                        => \/ cache' = cache
                           \/ /\ cache[key].ttl > 0
                              /\ cache' = [cache EXCEPT ![key].ttl = BalanceExpiryTime]]_vars

\* a nonce entry one tick old has its full TTL again after a hit
C19_Witness ==
    \E p \in Procs :
        /\ Done(p) /\ IsAccount(frame[p]) /\ frame[p].cached # <<>>
        /\ frame[p].status = "ok"
        /\ cache[KeyOf(frame[p])].ttl = BalanceExpiryTime
        /\ cache[KeyOf(frame[p])].age = 1
        /\ cache[KeyOf(frame[p])].val = frame[p].cached

\* C20: a Setex of GetLatestAccountInfo over an existing nonce entry never
\* stores a smaller nonce than the entry held.
C20_CachedNonceNeverDecreases ==
    [][\A a \in Accounts :
        LET old == cache[GetAccountKey(a)]
            new == cache'[GetAccountKey(a)]
        IN  old.ttl > 0 /\ new.ttl > 0 /\ new.val # old.val
                => ParseInt(new.val).val >= ParseInt(old.val).val]_vars

====
